---- MODULE Spec2Model ----
(***************************************************************************)
(* The browser-side learning application: the subjects page, the task      *)
(* page and the backend API client, as a state machine.                    *)
(*                                                                         *)
(* JavaScript values are represented as follows.                           *)
(*   string            a tuple of one-character strings, <<"a", "b">>      *)
(*   null / undefined  None (the empty tuple) where a value is optional,   *)
(*                     Some(v) == <<v>> for a value that is present        *)
(*   array             a tuple                                             *)
(*   object            a record                                            *)
(***************************************************************************)
EXTENDS Integers, Sequences, FiniteSets, TLC

None == <<>>
Some(v) == <<v>>

(***************************************************************************)
(* Bounds of the model.                                                    *)
(***************************************************************************)
MaxSubjects == 2
MaxInflight == 2
MaxClock == 1
MaxHistory == 2
MaxVerify == 2
\* largest session size of the scoring specification
MaxScoreQuestions == 40
\* most questions a topic of the shapes specification holds
MaxShapes == 2

(***************************************************************************)
(* Strings.                                                                *)
(***************************************************************************)
RECURSIVE TrimStart(_)
TrimStart(s) == IF s # <<>> /\ Head(s) = " " THEN TrimStart(Tail(s)) ELSE s

RECURSIVE TrimEnd(_)
TrimEnd(s) == IF s # <<>> /\ s[Len(s)] = " " THEN TrimEnd(SubSeq(s, 1, Len(s) - 1)) ELSE s

\* String.prototype.trim
Trim(s) == TrimEnd(TrimStart(s))

LowerChar(c) == IF c = "A" THEN "a" ELSE IF c = "B" THEN "b" ELSE c

\* String.prototype.toLowerCase
ToLowerCase(s) == [i \in 1..Len(s) |-> LowerChar(s[i])]

\* String.prototype.substring(0, n)
Substring0(s, n) == IF Len(s) <= n THEN s ELSE SubSeq(s, 1, n)

\* the length submitTaskAnswer truncates a coerced object to
TruncateAt == 500

\* String(obj) of a plain object, "[object Object]"
ObjectString == <<"[", "o", "]">>

\* String(null)
NullString == <<"n", "u", "l", "l">>

(***************************************************************************)
(* IEEE-754 double arithmetic of the score, (correct / total) * 100 and    *)
(* Math.round. A positive double is m * 2^(-scale) with 2^52 <= m < 2^53;  *)
(* m is kept as three limbs <<hi, mid, lo>> of 17, 18 and 18 bits.         *)
(***************************************************************************)
LimbBits == 18
Limb == 2^LimbBits

RECURSIVE LeadingZeros(_, _)
LeadingZeros(r, d) == IF 2 * r >= d THEN 0 ELSE 1 + LeadingZeros(2 * r, d)

\* m + 1 on a three-limb number
Increment(m) ==
    IF m[3] + 1 < Limb THEN <<m[1], m[2], m[3] + 1>>
    ELSE IF m[2] + 1 < Limb THEN <<m[1], m[2] + 1, 0>>
    ELSE <<m[1] + 1, 0, 0>>

\* round to nearest, ties to even, then renormalise to 53 bits
RoundEven(m, scale, guard, sticky) ==
    LET up == guard = 1 /\ (sticky \/ (m[3] % 2) = 1)
        r  == IF up THEN Increment(m) ELSE m
    IN  IF r[1] >= 2^17 THEN [m |-> <<2^16, 0, 0>>, scale |-> scale - 1]
        ELSE [m |-> r, scale |-> scale]

\* the double c / n, for 0 < c < n
FloatDiv(c, n) ==
    LET z  == LeadingZeros(c, n)
        r0 == c * 2^z
        l1 == (r0 * 2^17) \div n
        r1 == (r0 * 2^17) % n
        l2 == (r1 * Limb) \div n
        r2 == (r1 * Limb) % n
        l3 == (r2 * Limb) \div n
        r3 == (r2 * Limb) % n
    IN  RoundEven(<<l1, l2, l3>>, z + 53, (2 * r3) \div n, ((2 * r3) % n) # 0)

\* the double x * 100
FloatTimes100(x) ==
    LET p3  == 100 * x.m[3]
        p2  == (100 * x.m[2]) + (p3 \div Limb)
        p1  == (100 * x.m[1]) + (p2 \div Limb)
        lo  == p3 % Limb
        mid == p2 % Limb
        d   == IF p1 >= 2^23 THEN 7 ELSE 6
        m   == << p1 \div 2^d,
                  (mid \div 2^d) + ((p1 % 2^d) * 2^(LimbBits - d)),
                  (lo \div 2^d) + ((mid % 2^d) * 2^(LimbBits - d)) >>
    IN  RoundEven(m, x.scale - d, (lo \div 2^(d - 1)) % 2, (lo % 2^(d - 1)) # 0)

\* Math.round of a double 0 < x < 128: floor(x + 1/2)
MathRound(x) ==
    LET s == x.scale - 2 * LimbBits
    IN  IF s > 17 THEN 0
        ELSE IF s = 17 THEN x.m[1] \div 2^16
        ELSE (x.m[1] \div 2^s) + ((x.m[1] \div 2^(s - 1)) % 2)

\* Math.round((correctAnswers / totalQuestions) * 100), for 0 <= c <= n, n >= 1
ScorePercent(c, n) ==
    IF c = 0 THEN 0
    ELSE IF c = n THEN 100
    ELSE MathRound(FloatTimes100(FloatDiv(c, n)))

(***************************************************************************)
(* Questions as the backend sends them: a string, an object with some of   *)
(* the fields question / text / title, or null.                            *)
(***************************************************************************)
StrQ(s) == [k |-> "string", s |-> s, question |-> None, text |-> None, title |-> None]
ObjQ(q, t, ti) == [k |-> "object", s |-> <<>>, question |-> q, text |-> t, title |-> ti]
NullQ == [k |-> "null", s |-> <<>>, question |-> None, text |-> None, title |-> None]

\* JavaScript truthiness of an optional string field
Truthy(o) == o # None /\ o[1] # <<>>

\* a || b || c over optional string fields, ending in a string
OrElse(o, rest) == IF Truthy(o) THEN o[1] ELSE rest

(***************************************************************************)
(* The state.                                                              *)
(***************************************************************************)
VARIABLES
    page,                 \* the page whose script is running: "subjects", "task" or "other"
    subjects,             \* AppState.subjects
    lsSubjects,           \* localStorage 'subjects'
    lsTask,               \* localStorage 'currentTaskData'
    lsHistory,            \* localStorage 'taskHistory'
    now,                  \* the reading of Date.now()
    subjectCalls,         \* generateSubject invocations awaiting the backend: their subject names
    taskData,             \* loadTaskPage's parsed copy of 'currentTaskData'
    genState,             \* generateQuestionsForTopic: "idle", "pending", "ok" or "failed"
    genRequests,          \* generate-questions requests issued by this load of the task page
    currentTaskQuestions, \* window.currentTaskQuestions
    taskAnswers,          \* window.taskAnswers
    taskScores,           \* window.taskScores
    verifyCalls,          \* submitTaskAnswer invocations awaiting the backend
    view,                 \* what the questions container shows
    notice,               \* the last alert / error / success message shown
    escaped,              \* an exception left a handler uncaught
    sessionCompleted,     \* the persisted task session instance has been bulk-submitted
    clientCall,           \* the APIClient operation invoked, with its arguments
    clientPc,             \* where that invocation stands
    clientTimer,          \* the abort timer of _request is armed
    clientRequests,       \* the requests the invocation has handed to fetch
    clientResult          \* what the invocation returned or threw

clientVars == <<clientCall, clientPc, clientTimer, clientRequests, clientResult>>

vars == <<page, subjects, lsSubjects, lsTask, lsHistory, now, subjectCalls, taskData,
          genState, genRequests, currentTaskQuestions, taskAnswers, taskScores,
          verifyCalls, view, notice, escaped, sessionCompleted, clientVars>>

storeVars == <<lsSubjects, lsTask, lsHistory>>
taskPageVars == <<taskData, genState, genRequests, currentTaskQuestions, taskAnswers,
                  taskScores, verifyCalls, view>>

(***************************************************************************)
(* Inputs: what the user types and what the backend answers.               *)
(***************************************************************************)
SubjectInputs == {<<" ">>, <<"a">>, <<" ", "A">>, <<"b">>}

\* the text of an answer box: blank, or an answer
AnswerInputs == {<<" ">>, <<"x", " ">>}

\* two different answers, for a question that is answered twice
RepeatedAnswerInputs == {<<"x">>, <<"y">>}

\* a topic of a /generate payload: {topic, questions}, either field possibly missing
TopicWithQuestions == [topic |-> Some(<<"t">>), questions |-> Some(<<StrQ(<<"q">>)>>)]
TopicBare == [topic |-> None, questions |-> None]
TopicWithObjects ==
    [topic |-> Some(<<"u">>),
     questions |-> Some(<<ObjQ(None, None, Some(<<"r">>))>>)]

\* the topics field of a /generate payload; None when the payload has none
ContentPayloads ==
    {None, Some(<<>>), Some(<<TopicWithQuestions>>), Some(<<TopicBare, TopicWithObjects>>)}

\* what /generate-questions yields after "response.data || response": an object with a
\* questions array, a bare array, or anything else
QuestionPayloads ==
    { [shape |-> "questions",
       items |-> <<ObjQ(Some(<<"q", "1">>), None, None), StrQ(<<"q", "2">>)>>],
      [shape |-> "array", items |-> <<ObjQ(None, Some(<<" ">>), None)>>],
      [shape |-> "questions", items |-> <<>>],
      [shape |-> "questions", items |-> <<NullQ>>],
      [shape |-> "other", items |-> <<>>] }

\* what /verify-answer yields: is_correct inside data, at top level, or absent
VerifyPayloads ==
    { [at |-> "data", is_correct |-> TRUE], [at |-> "data", is_correct |-> FALSE],
      [at |-> "top", is_correct |-> TRUE], [at |-> "none", is_correct |-> FALSE] }

(***************************************************************************)
(* localStorage: values are written with JSON.stringify and read with      *)
(* JSON.parse. On the values of this model (strings, numbers, booleans,    *)
(* arrays and objects of them) the text written is read back as an equal   *)
(* value; a property holding undefined is dropped by stringify and reads   *)
(* back as undefined, which is None both times. A key never written reads  *)
(* as null.                                                                *)
(***************************************************************************)
StringifyTopic(t) == [id |-> t.id, name |-> t.name, questions |-> t.questions]

StringifySubject(s) ==
    [id |-> s.id, name |-> s.name,
     topics |-> [i \in 1..Len(s.topics) |-> StringifyTopic(s.topics[i])],
     isAI |-> s.isAI, createdAt |-> s.createdAt]

\* saveState: localStorage.setItem('subjects', JSON.stringify(AppState.subjects))
saveState(subjs) == Some([i \in 1..Len(subjs) |-> StringifySubject(subjs[i])])

\* JSON.parse(localStorage.getItem('subjects')) || []
LoadSubjects == IF lsSubjects = None THEN <<>> ELSE lsSubjects[1]

\* JSON.parse(localStorage.getItem('taskHistory') || '[]')
LoadHistory == IF lsHistory = None THEN <<>> ELSE lsHistory[1]

(***************************************************************************)
(* Array helpers.                                                          *)
(***************************************************************************)
\* Array.prototype.find by id: the index of the first match, 0 when none
FindById(arr, id) ==
    IF \E i \in 1..Len(arr) : arr[i].id = id
    THEN CHOOSE i \in 1..Len(arr) : arr[i].id = id /\ \A j \in 1..(i - 1) : arr[j].id # id
    ELSE 0

\* Array.prototype.filter(s => s.id !== id)
RECURSIVE FilterOutId(_, _)
FilterOutId(arr, id) ==
    IF arr = <<>> THEN <<>>
    ELSE IF Head(arr).id = id THEN FilterOutId(Tail(arr), id)
    ELSE <<Head(arr)>> \o FilterOutId(Tail(arr), id)

\* the sequence without its i-th element
RemoveAt(seq, i) == SubSeq(seq, 1, i - 1) \o SubSeq(seq, i + 1, Len(seq))

\* an invocation of an operation of the API client, and what it came to
Call(op, subject, topic, question, answer, context, count) ==
    [op |-> op, subject |-> subject, topic |-> topic, question |-> question,
     answer |-> answer, context |-> context, count |-> count]
Result(kind, message, value, flag) ==
    [kind |-> kind, message |-> message, value |-> value, flag |-> flag]
NoCall == Call("none", None, None, None, None, None, 0)
NoResult == Result("none", <<>>, None, FALSE)

(***************************************************************************)
(* Initial state: the subjects page loaded on an empty localStorage.       *)
(***************************************************************************)
NoView == [banner |-> FALSE, body |-> "none"]

Init ==
    /\ page = "subjects"
    /\ subjects = <<>>
    /\ lsSubjects = None
    /\ lsTask = None
    /\ lsHistory = None
    /\ now = 0
    /\ subjectCalls = <<>>
    /\ taskData = None
    /\ genState = "idle"
    /\ genRequests = 0
    /\ currentTaskQuestions = None
    /\ taskAnswers = None
    /\ taskScores = None
    /\ verifyCalls = <<>>
    /\ view = NoView
    /\ notice = "none"
    /\ escaped = FALSE
    /\ sessionCompleted = FALSE
    /\ clientCall = NoCall
    /\ clientPc = "idle"
    /\ clientTimer = FALSE
    /\ clientRequests = <<>>
    /\ clientResult = NoResult

\* the clock advances
Tick ==
    /\ now < MaxClock
    /\ now' = now + 1
    /\ UNCHANGED <<page, subjects, storeVars, subjectCalls, taskPageVars, notice,
                   escaped, sessionCompleted>>
    /\ UNCHANGED clientVars

(***************************************************************************)
(* The subjects page.                                                      *)
(***************************************************************************)
\* AppState.subjects.find(s => s.name.toLowerCase() === subjectName.toLowerCase())
ExistingSubject(subjs, subjectName) ==
    \E i \in 1..Len(subjs) : ToLowerCase(subjs[i].name) = ToLowerCase(subjectName)

\* generateSubject up to its await: validation, the duplicate check, the backend call
GenerateSubject(input) ==
    /\ page = "subjects"
    /\ LET subjectName == Trim(input)
       IN  IF subjectName = <<>>
           THEN /\ notice' = "enter a subject name"
                /\ UNCHANGED subjectCalls
           ELSE IF ExistingSubject(subjects, subjectName)
           THEN /\ notice' = "subject already exists"
                /\ UNCHANGED subjectCalls
           ELSE /\ Len(subjectCalls) < MaxInflight
                /\ subjectCalls' = Append(subjectCalls, subjectName)
                /\ notice' = "loading"
    /\ UNCHANGED <<page, subjects, storeVars, now, taskPageVars, escaped, sessionCompleted>>
    /\ UNCHANGED clientVars

\* a mapping that would give every topic the same id, to compare with the one
\* of the code
MapTopicsOneId(topics) ==
    [i \in 1..Len(topics) |->
        [id |-> 0,
         name |-> topics[i].topic,
         questions |-> IF topics[i].questions = None THEN <<>> ELSE topics[i].questions[1]]]

\* response.topics.map((topic, idx) => ({id: `topic-${idx}`, name: topic.topic,
\*                                       questions: topic.questions || []}))
MapTopics(topics) ==
    [i \in 1..Len(topics) |->
        [id |-> i - 1,
         name |-> topics[i].topic,
         questions |-> IF topics[i].questions = None THEN <<>> ELSE topics[i].questions[1]]]

\* the subject object generateSubject builds from the response
NewSubject(subjectName, topics, clock) ==
    [id |-> clock, name |-> subjectName, topics |-> MapTopics(topics),
     isAI |-> TRUE, createdAt |-> clock]

\* generateSubject after its await, the call having returned a payload
GenerateSubjectOk(c, topics) ==
    /\ page = "subjects"
    /\ c \in 1..Len(subjectCalls)
    /\ subjectCalls' = RemoveAt(subjectCalls, c)
    /\ IF topics = None
       THEN \* response.topics.map throws a TypeError, caught by the handler's catch
            /\ notice' = "generation error"
            /\ UNCHANGED <<subjects, lsSubjects>>
       ELSE /\ Len(subjects) < MaxSubjects
            /\ subjects' = <<NewSubject(subjectCalls[c], topics[1], now)>> \o subjects
            /\ lsSubjects' = saveState(subjects')
            /\ notice' = "generated"
    /\ UNCHANGED <<page, lsTask, lsHistory, now, taskPageVars, escaped, sessionCompleted>>
    /\ UNCHANGED clientVars

\* a failure path that would add the subject with no topics, to compare with
\* the one of the code
GenerateSubjectFailAdding(c) ==
    /\ page = "subjects"
    /\ c \in 1..Len(subjectCalls)
    /\ Len(subjects) < MaxSubjects
    /\ subjectCalls' = RemoveAt(subjectCalls, c)
    /\ subjects' = <<NewSubject(subjectCalls[c], <<>>, now)>> \o subjects
    /\ lsSubjects' = saveState(subjects')
    /\ notice' = "generation error"
    /\ UNCHANGED <<page, lsTask, lsHistory, now, taskPageVars, escaped, sessionCompleted>>
    /\ UNCHANGED clientVars

\* generateSubject after its await, the call having thrown
GenerateSubjectFail(c) ==
    /\ page = "subjects"
    /\ c \in 1..Len(subjectCalls)
    /\ subjectCalls' = RemoveAt(subjectCalls, c)
    /\ notice' = "generation error"
    /\ UNCHANGED <<page, subjects, storeVars, now, taskPageVars, escaped, sessionCompleted>>
    /\ UNCHANGED clientVars

\* a deletion that would not save the collection, to compare with the one of
\* the code
DeleteSubjectUnsaved(subjectId, confirmed) ==
    /\ page = "subjects"
    /\ IF confirmed
       THEN subjects' = FilterOutId(subjects, subjectId)
       ELSE UNCHANGED subjects
    /\ UNCHANGED <<page, storeVars, now, subjectCalls, taskPageVars, notice,
                   escaped, sessionCompleted>>
    /\ UNCHANGED clientVars

\* deleteSubject(subjectId); confirmed is the answer to the confirm dialog
DeleteSubject(subjectId, confirmed) ==
    /\ page = "subjects"
    /\ IF confirmed
       THEN /\ subjects' = FilterOutId(subjects, subjectId)
            /\ lsSubjects' = saveState(subjects')
       ELSE UNCHANGED <<subjects, lsSubjects>>
    /\ UNCHANGED <<page, lsTask, lsHistory, now, subjectCalls, taskPageVars, notice,
                   escaped, sessionCompleted>>
    /\ UNCHANGED clientVars

\* the task session viewTopicQuestions stores for a topic of a subject
TaskSession(subject, topic) ==
    [subjectId |-> subject.id,
     topicId |-> topic.id,
     subject |-> subject.name,
     topic |-> topic.name,
     questions |-> topic.questions,
     needsGeneration |-> TRUE,
     apiGenerated |-> FALSE]

\* the browser loads the subjects page: a fresh script context reads the stored collection
LoadSubjectsPage ==
    /\ page' = "subjects"
    /\ subjects' = LoadSubjects
    /\ subjectCalls' = <<>>
    /\ taskData' = None
    /\ genState' = "idle"
    /\ genRequests' = 0
    /\ currentTaskQuestions' = None
    /\ taskAnswers' = None
    /\ taskScores' = None
    /\ verifyCalls' = <<>>
    /\ view' = NoView
    /\ notice' = "none"
    /\ escaped' = FALSE
    /\ UNCHANGED <<storeVars, now, sessionCompleted>>
    /\ UNCHANGED clientVars


(***************************************************************************)
(* The task page.                                                          *)
(***************************************************************************)
\* generateQuestionsForTopic's ingestion of one question of the response:
\* typeof q === 'string' ? q : q.question || q.text || String(q)
IngestText(q) ==
    IF q.k = "string" THEN q.s
    ELSE OrElse(q.question, OrElse(q.text, ObjectString))

IngestQuestion(q) == ObjQ(Some(IngestText(q)), None, None)

\* renderTaskQuestions' normalisation of one question
NormalizeQuestion(q) ==
    IF q.k = "string" THEN ObjQ(Some(q.s), None, None)
    ELSE IF q.k = "object" /\ Truthy(q.question) THEN q
    ELSE IF q.k = "object" THEN ObjQ(Some(OrElse(q.text, OrElse(q.title, ObjectString))), None, None)
    ELSE ObjQ(Some(NullString), None, None)

\* the window state and the container before anything is rendered
Fresh == [questions |-> None, answers |-> None, scores |-> None, view |-> NoView]

\* renderTaskQuestions(questions): the window state and the container afterwards,
\* old being what they were; the container's markup is replaced in both branches
RenderTaskQuestions(questions, old) ==
    IF Len(questions) = 0
    THEN [old EXCEPT !.view = [banner |-> FALSE, body |-> "no questions"]]
    ELSE [questions |-> Some([i \in 1..Len(questions) |-> NormalizeQuestion(questions[i])]),
          answers |-> Some([i \in 1..Len(questions) |-> None]),
          scores |-> Some([i \in 1..Len(questions) |-> None]),
          view |-> [banner |-> FALSE, body |-> "questions"]]

\* the catch block of generateQuestionsForTopic: the failure banner, then the cached
\* questions if there are any, else the empty state appended under the banner
RenderFallback(td, old) ==
    IF Len(td.questions) > 0
    THEN RenderTaskQuestions(td.questions, [old EXCEPT !.view = [banner |-> TRUE, body |-> "none"]])
    ELSE [old EXCEPT !.view = [banner |-> TRUE, body |-> "go back"]]

\* the validation of APIClient.generateQuestions(subject, topic, 5): !subject || !topic
QuestionsRequestValid(td) == td.subject # <<>> /\ Truthy(td.topic)

\* the page shows r
Show(r) ==
    /\ currentTaskQuestions' = r.questions
    /\ taskAnswers' = r.answers
    /\ taskScores' = r.scores
    /\ view' = r.view

\* the browser loads task.html: loadTaskPage up to its await
LoadTaskPage ==
    /\ page' = "task"
    /\ subjects' = LoadSubjects
    /\ subjectCalls' = <<>>
    /\ verifyCalls' = <<>>
    /\ notice' = "none"
    /\ escaped' = FALSE
    /\ taskData' = lsTask
    /\ IF lsTask = None
       THEN /\ Show([Fresh EXCEPT !.view = [banner |-> FALSE, body |-> "no task"]])
            /\ genState' = "idle"
            /\ genRequests' = 0
       ELSE IF lsTask[1].needsGeneration
       THEN IF QuestionsRequestValid(lsTask[1])
            THEN /\ Show([Fresh EXCEPT !.view = [banner |-> FALSE, body |-> "generating"]])
                 /\ genState' = "pending"
                 /\ genRequests' = 1
            ELSE \* the client throws before any request; the catch block runs
                 /\ Show(RenderFallback(lsTask[1], Fresh))
                 /\ genState' = "failed"
                 /\ genRequests' = 0
       ELSE /\ Show(RenderTaskQuestions(lsTask[1].questions, Fresh))
            /\ genState' = "idle"
            /\ genRequests' = 0
    /\ UNCHANGED <<storeVars, now, sessionCompleted>>
    /\ UNCHANGED clientVars

\* the payload is usable: an array is found and mapping it does not throw
UsablePayload(payload) ==
    /\ payload.shape \in {"questions", "array"}
    /\ \A i \in 1..Len(payload.items) : payload.items[i].k # "null"

Current == [questions |-> currentTaskQuestions, answers |-> taskAnswers,
            scores |-> taskScores, view |-> view]

\* a failure path that would save the session as generated from its cached
\* questions, to compare with the one of the code
GenerateQuestionsFailSaving ==
    /\ page = "task"
    /\ genState = "pending"
    /\ genState' = "failed"
    /\ Show(RenderFallback(taskData[1], Current))
    /\ lsTask' = Some([taskData[1] EXCEPT !.needsGeneration = FALSE])
    /\ UNCHANGED <<page, subjects, lsSubjects, lsHistory, now, subjectCalls, taskData,
                   genRequests, verifyCalls, notice, escaped, sessionCompleted>>
    /\ UNCHANGED clientVars

\* a failure path that would call the backend again, to compare with the one
\* of the code
GenerateQuestionsFailRetrying ==
    /\ page = "task"
    /\ genState = "pending"
    /\ genRequests' = genRequests + 1
    /\ UNCHANGED <<page, subjects, storeVars, now, subjectCalls, taskData, genState,
                   currentTaskQuestions, taskAnswers, taskScores, view,
                   verifyCalls, notice, escaped, sessionCompleted>>
    /\ UNCHANGED clientVars

\* generateQuestionsForTopic after its await, the call having thrown
GenerateQuestionsFail ==
    /\ page = "task"
    /\ genState = "pending"
    /\ genState' = "failed"
    /\ Show(RenderFallback(taskData[1], Current))
    /\ UNCHANGED <<page, subjects, storeVars, now, subjectCalls, taskData, genRequests,
                   verifyCalls, notice, escaped, sessionCompleted>>
    /\ UNCHANGED clientVars

\* a replacement that would also name the topic after the session, to compare
\* with the one of the code
ReplaceTopicRenaming(subjs, td, questions) ==
    LET si == FindById(subjs, td.subjectId)
        ti == IF si = 0 THEN 0 ELSE FindById(subjs[si].topics, td.topicId)
    IN  IF si = 0 \/ ti = 0 THEN subjs
        ELSE [subjs EXCEPT ![si].topics[ti].questions = questions,
                           ![si].topics[ti].name = Some(td.subject)]

\* topic.questions = questions, for the topic of the session, when it is still there
ReplaceTopicQuestions(subjs, td, questions) ==
    LET si == FindById(subjs, td.subjectId)
        ti == IF si = 0 THEN 0 ELSE FindById(subjs[si].topics, td.topicId)
    IN  IF si = 0 \/ ti = 0 THEN subjs
        ELSE [subjs EXCEPT ![si].topics[ti].questions = questions]

TopicFound(subjs, td) ==
    LET si == FindById(subjs, td.subjectId)
    IN  si # 0 /\ FindById(subjs[si].topics, td.topicId) # 0

\* a success path that would leave the session asking for generation, to
\* compare with the one of the code
GenerateQuestionsOkStillNeeding(payload) ==
    /\ page = "task"
    /\ genState = "pending"
    /\ IF ~UsablePayload(payload)
       THEN \* 'Invalid response format', or a TypeError on a null question: the catch block
            /\ genState' = "failed"
            /\ Show(RenderFallback(taskData[1], Current))
            /\ UNCHANGED <<subjects, storeVars, taskData, notice>>
       ELSE LET questions == [i \in 1..Len(payload.items) |-> IngestQuestion(payload.items[i])]
                td == [taskData[1] EXCEPT !.questions = questions,
                                          !.apiGenerated = TRUE,
                                          !.needsGeneration = TRUE]
            IN  /\ genState' = "ok"
                /\ taskData' = Some(td)
                /\ lsTask' = Some(td)
                /\ subjects' = ReplaceTopicQuestions(subjects, td, questions)
                /\ lsSubjects' = IF TopicFound(subjects, td) THEN saveState(subjects')
                                 ELSE lsSubjects
                /\ Show(RenderTaskQuestions(questions, Current))
                /\ notice' = "generated"
                /\ UNCHANGED lsHistory
    /\ UNCHANGED <<page, now, subjectCalls, genRequests, verifyCalls, escaped, sessionCompleted>>
    /\ UNCHANGED clientVars

\* generateQuestionsForTopic after its await, the call having returned a payload
GenerateQuestionsOk(payload) ==
    /\ page = "task"
    /\ genState = "pending"
    /\ IF ~UsablePayload(payload)
       THEN \* 'Invalid response format', or a TypeError on a null question: the catch block
            /\ genState' = "failed"
            /\ Show(RenderFallback(taskData[1], Current))
            /\ UNCHANGED <<subjects, storeVars, taskData, notice>>
       ELSE LET questions == [i \in 1..Len(payload.items) |-> IngestQuestion(payload.items[i])]
                td == [taskData[1] EXCEPT !.questions = questions,
                                          !.apiGenerated = TRUE,
                                          !.needsGeneration = FALSE]
            IN  /\ genState' = "ok"
                /\ taskData' = Some(td)
                /\ lsTask' = Some(td)
                /\ subjects' = ReplaceTopicQuestions(subjects, td, questions)
                /\ lsSubjects' = IF TopicFound(subjects, td) THEN saveState(subjects')
                                 ELSE lsSubjects
                /\ Show(RenderTaskQuestions(questions, Current))
                /\ notice' = "generated"
                /\ UNCHANGED lsHistory
    /\ UNCHANGED <<page, now, subjectCalls, genRequests, verifyCalls, escaped, sessionCompleted>>
    /\ UNCHANGED clientVars

\* submitTaskAnswer's extraction of the question text, before the final trim
ExtractText(q) ==
    IF q.k = "string" THEN q.s
    ELSE IF q.k = "object"
    THEN LET t == OrElse(q.question, OrElse(q.text, OrElse(q.title, <<>>)))
         IN  IF t = <<>> THEN Substring0(ObjectString, TruncateAt) ELSE t
    ELSE <<>>

\* submitTaskAnswer(questionIndex) up to its await; input is the text of the answer box
SubmitTaskAnswer(questionIndex, input) ==
    /\ page = "task"
    /\ view.body = "questions"
    /\ questionIndex \in 1..Len(currentTaskQuestions[1])
    /\ LET answerText == Trim(input)
           questionText == Trim(ExtractText(currentTaskQuestions[1][questionIndex]))
       IN  IF answerText = <<>> \/ questionText = <<>>
           THEN \* an alert, and the handler returns
                UNCHANGED verifyCalls
           ELSE /\ Len(verifyCalls) < MaxVerify
                /\ verifyCalls' = Append(verifyCalls, [index |-> questionIndex, answer |-> answerText])
    /\ UNCHANGED <<page, subjects, storeVars, now, subjectCalls, taskData, genState,
                   genRequests, currentTaskQuestions, taskAnswers, taskScores, view,
                   notice, escaped, sessionCompleted>>
    /\ UNCHANGED clientVars

\* a score that would count any verdict as correct, to compare with the one of
\* the code
ScoreOfAnyVerdict(resp) == IF resp.at \in {"data", "top"} THEN 1 ELSE 0

\* the score submitTaskAnswer derives from the verification response
ScoreOf(resp) == IF resp.at \in {"data", "top"} /\ resp.is_correct THEN 1 ELSE 0

\* a recording that would push the answer and the score onto the arrays, to
\* compare with the one of the code
VerifyOkPushing(c, resp) ==
    /\ page = "task"
    /\ c \in 1..Len(verifyCalls)
    /\ verifyCalls' = RemoveAt(verifyCalls, c)
    /\ taskAnswers' = Some(Append(taskAnswers[1], Some(verifyCalls[c].answer)))
    /\ taskScores' = Some(Append(taskScores[1], Some(ScoreOf(resp))))
    /\ UNCHANGED <<page, subjects, storeVars, now, subjectCalls, taskData, genState,
                   genRequests, currentTaskQuestions, view, notice, escaped,
                   sessionCompleted>>
    /\ UNCHANGED clientVars

\* a recording that would store the answer and the score for every question
\* of the list, to compare with the one of the code
VerifyOkFilling(c, resp) ==
    /\ page = "task"
    /\ c \in 1..Len(verifyCalls)
    /\ verifyCalls' = RemoveAt(verifyCalls, c)
    /\ taskAnswers' = Some([j \in 1..Len(taskAnswers[1]) |-> Some(verifyCalls[c].answer)])
    /\ taskScores' = Some([j \in 1..Len(taskScores[1]) |-> Some(ScoreOf(resp))])
    /\ UNCHANGED <<page, subjects, storeVars, now, subjectCalls, taskData, genState,
                   genRequests, currentTaskQuestions, view, notice, escaped,
                   sessionCompleted>>
    /\ UNCHANGED clientVars

\* a recording that would store the score and leave the answer out, to
\* compare with the one of the code
VerifyOkScoreOnly(c, resp) ==
    /\ page = "task"
    /\ c \in 1..Len(verifyCalls)
    /\ verifyCalls' = RemoveAt(verifyCalls, c)
    /\ taskScores' = Some([taskScores[1] EXCEPT ![verifyCalls[c].index] = Some(ScoreOf(resp))])
    /\ UNCHANGED <<page, subjects, storeVars, now, subjectCalls, taskData, genState,
                   genRequests, currentTaskQuestions, taskAnswers, view, notice, escaped,
                   sessionCompleted>>
    /\ UNCHANGED clientVars

\* submitTaskAnswer after its await, the call having returned resp
VerifyOk(c, resp) ==
    /\ page = "task"
    /\ c \in 1..Len(verifyCalls)
    /\ verifyCalls' = RemoveAt(verifyCalls, c)
    /\ taskAnswers' = Some([taskAnswers[1] EXCEPT ![verifyCalls[c].index] = Some(verifyCalls[c].answer)])
    /\ taskScores' = Some([taskScores[1] EXCEPT ![verifyCalls[c].index] = Some(ScoreOf(resp))])
    /\ UNCHANGED <<page, subjects, storeVars, now, subjectCalls, taskData, genState,
                   genRequests, currentTaskQuestions, view, notice, escaped,
                   sessionCompleted>>
    /\ UNCHANGED clientVars

\* a failure path that would clear the record of the question, to compare
\* with the one of the code
VerifyFailErasing(c) ==
    /\ page = "task"
    /\ c \in 1..Len(verifyCalls)
    /\ verifyCalls' = RemoveAt(verifyCalls, c)
    /\ taskAnswers' = Some([taskAnswers[1] EXCEPT ![verifyCalls[c].index] = None])
    /\ taskScores' = Some([taskScores[1] EXCEPT ![verifyCalls[c].index] = None])
    /\ UNCHANGED <<page, subjects, storeVars, now, subjectCalls, taskData, genState,
                   genRequests, currentTaskQuestions, view, notice, escaped,
                   sessionCompleted>>
    /\ UNCHANGED clientVars

\* submitTaskAnswer after its await, the call having thrown
VerifyFail(c) ==
    /\ page = "task"
    /\ c \in 1..Len(verifyCalls)
    /\ verifyCalls' = RemoveAt(verifyCalls, c)
    /\ UNCHANGED <<page, subjects, storeVars, now, subjectCalls, taskData, genState,
                   genRequests, currentTaskQuestions, taskAnswers, taskScores, view,
                   notice, escaped, sessionCompleted>>
    /\ UNCHANGED clientVars

\* array.filter(pred).length
CountOf(arr, wanted) == Cardinality({i \in 1..Len(arr) : arr[i] \in wanted})

\* the entry submitAllTaskAnswers pushes onto the task history
HistoryEntry(td, totalQuestions, correctAnswers, clock) ==
    [subject |-> td.subject, topic |-> td.topic, totalQuestions |-> totalQuestions,
     correctAnswers |-> correctAnswers,
     score |-> ScorePercent(correctAnswers, totalQuestions),
     date |-> clock, timestamp |-> clock]

\* the script context is gone: the browser is leaving for another page
Unloaded ==
    /\ page' = "other"
    /\ subjects' = <<>>
    /\ subjectCalls' = <<>>
    /\ taskData' = None
    /\ genState' = "idle"
    /\ genRequests' = 0
    /\ Show(Fresh)
    /\ verifyCalls' = <<>>
    /\ notice' = "none"
    /\ escaped' = FALSE

\* submitAllTaskAnswers starting its history afresh instead of reading the stored one
SubmitAllTaskAnswersReplacing(confirmed) ==
    /\ page = "task"
    /\ IF lsTask = None
       THEN \* alert('No task data found!')
            UNCHANGED vars
       ELSE IF currentTaskQuestions = None
       THEN \* window.currentTaskQuestions.length throws a TypeError nobody catches
            /\ escaped' = TRUE
            /\ UNCHANGED <<page, subjects, storeVars, now, subjectCalls, taskPageVars,
                           notice, sessionCompleted>>
       ELSE LET totalQuestions == Len(currentTaskQuestions[1])
                answeredQuestions == totalQuestions - CountOf(taskAnswers[1], {None})
                correctAnswers == CountOf(taskScores[1], {Some(1)})
            IN  IF answeredQuestions < totalQuestions /\ ~confirmed
                THEN UNCHANGED vars
                ELSE /\ Len(LoadHistory) < MaxHistory
                     /\ lsHistory' = Some(<<HistoryEntry(lsTask[1], totalQuestions, correctAnswers, now)>>)
                     /\ sessionCompleted' = TRUE
                     /\ Unloaded
                     /\ UNCHANGED <<lsSubjects, lsTask, now>>
    /\ UNCHANGED clientVars

\* submitAllTaskAnswers; confirmed is the answer to the "Submit anyway?" dialog
SubmitAllTaskAnswers(confirmed) ==
    /\ page = "task"
    /\ IF lsTask = None
       THEN \* alert('No task data found!')
            UNCHANGED vars
       ELSE IF currentTaskQuestions = None
       THEN \* window.currentTaskQuestions.length throws a TypeError nobody catches
            /\ escaped' = TRUE
            /\ UNCHANGED <<page, subjects, storeVars, now, subjectCalls, taskPageVars,
                           notice, sessionCompleted>>
       ELSE LET totalQuestions == Len(currentTaskQuestions[1])
                answeredQuestions == totalQuestions - CountOf(taskAnswers[1], {None})
                correctAnswers == CountOf(taskScores[1], {Some(1)})
            IN  IF answeredQuestions < totalQuestions /\ ~confirmed
                THEN UNCHANGED vars
                ELSE /\ Len(LoadHistory) < MaxHistory
                     /\ lsHistory' = Some(Append(LoadHistory,
                            HistoryEntry(lsTask[1], totalQuestions, correctAnswers, now)))
                     /\ sessionCompleted' = TRUE
                     /\ Unloaded
                     /\ UNCHANGED <<lsSubjects, lsTask, now>>
    /\ UNCHANGED clientVars

\* viewTopicQuestions(subjectId, topicId): store the task session and leave for task.html
ViewTopicQuestions(subjectId, topicId) ==
    /\ page = "subjects"
    /\ LET si == FindById(subjects, subjectId)
           ti == IF si = 0 THEN 0 ELSE FindById(subjects[si].topics, topicId)
       IN  IF si = 0 \/ ti = 0
           THEN UNCHANGED vars
           ELSE /\ lsTask' = Some(TaskSession(subjects[si], subjects[si].topics[ti]))
                /\ sessionCompleted' = FALSE
                /\ Unloaded
                /\ UNCHANGED <<lsSubjects, lsHistory, now>>
    /\ UNCHANGED clientVars

(***************************************************************************)
(* The backend API client (class APIClient). An argument is None when the  *)
(* caller left it undefined, else Some of a string; a count is an integer. *)
(* An error is the tuple of the parts of its message.                      *)
(***************************************************************************)
ClientStrings == {None, Some(<<>>), Some(<<" ">>), Some(<<" ", "a">>)}
ContextStrings == {None, Some(<<"c", " ">>)}
Counts == {0, 1, 20, 21, 50, 51}
Statuses == {404, 500}

\* !value of an optional string: undefined and '' are falsy
Falsy(o) == o = None \/ o[1] = <<>>

\* !value || value.trim().length === 0
Blank(o) == Falsy(o) \/ Len(Trim(o[1])) = 0

\* the checks each operation makes before it builds its request: the message
\* of the error thrown, <<>> when the arguments pass
ValidateGenerateContent(call) ==
    IF Blank(call.subject) THEN <<"Subject cannot be empty">> ELSE <<>>

\* checks whose upper limit would be one too high, to compare with those of the code
ValidateGenerateQuestionsWide(call) ==
    IF Falsy(call.subject) \/ Falsy(call.topic) THEN <<"Subject and topic are required">>
    ELSE IF call.count < 1 \/ call.count > 21 THEN <<"Count must be between 1 and 20">>
    ELSE <<>>

ValidateGenerateQuestions(call) ==
    IF Falsy(call.subject) \/ Falsy(call.topic) THEN <<"Subject and topic are required">>
    ELSE IF call.count < 1 \/ call.count > 20 THEN <<"Count must be between 1 and 20">>
    ELSE <<>>

ValidateGenerateQuiz(call) ==
    IF Falsy(call.topic) THEN <<"Topic is required">>
    ELSE IF call.count < 1 \/ call.count > 50 THEN <<"Count must be between 1 and 50">>
    ELSE <<>>

ValidateAnswerDoubt(call) ==
    IF Blank(call.question) THEN <<"Question cannot be empty">> ELSE <<>>

\* checks that would not trim the answer, to compare with those of the code
ValidateVerifyAnswerUntrimmed(call) ==
    IF Blank(call.question) THEN <<"Question cannot be empty">>
    ELSE IF Falsy(call.answer) THEN <<"Answer cannot be empty">>
    ELSE <<>>

ValidateVerifyAnswer(call) ==
    IF Blank(call.question) THEN <<"Question cannot be empty">>
    ELSE IF Blank(call.answer) THEN <<"Answer cannot be empty">>
    ELSE <<>>

Validate(call) ==
    CASE call.op = "generateContent"   -> ValidateGenerateContent(call)
      [] call.op = "generateQuestions" -> ValidateGenerateQuestions(call)
      [] call.op = "generateQuiz"      -> ValidateGenerateQuiz(call)
      [] call.op = "answerDoubt"       -> ValidateAnswerDoubt(call)
      [] call.op = "verifyAnswer"      -> ValidateVerifyAnswer(call)

\* value.trim() of an argument that passed the checks
Trimmed(o) == Some(Trim(o[1]))

\* the endpoint and the body or query parameters of the request of a call
Request(call) ==
    CASE call.op = "generateContent" ->
             Call("/generate", Trimmed(call.subject), None, None, None, None, 0)
      [] call.op = "generateQuestions" ->
             Call("/generate-questions", Trimmed(call.subject), Trimmed(call.topic),
                  None, None, None, call.count)
      [] call.op = "generateQuiz" ->
             Call("/generate-quiz", None, Trimmed(call.topic), None, None, None, call.count)
      [] call.op = "answerDoubt" ->
             Call("/answer-doubt", None, None, Trimmed(call.question), None,
                  IF call.context = None THEN Some(<<>>) ELSE Trimmed(call.context), 0)
      [] call.op = "verifyAnswer" ->
             Call("/verify-answer", None, None, Trimmed(call.question),
                  Trimmed(call.answer), None, 0)

Threw(message) == Result("threw", message, None, FALSE)
Returned(value) == Result("returned", <<>>, Some(value), FALSE)
ReturnedFlag(flag) == Result("returned", <<>>, None, flag)

\* an operation is invoked: its checks, then _request up to the call of fetch
Invoke(op, subject, topic, question, answer, context, count) ==
    LET call == Call(op, subject, topic, question, answer, context, count)
    IN  /\ clientPc \in {"idle", "done"}
        /\ clientCall' = call
        /\ IF Validate(call) # <<>>
           THEN /\ clientPc' = "done"
                /\ clientResult' = Threw(Validate(call))
                /\ clientRequests' = <<>>
                /\ clientTimer' = FALSE
           ELSE /\ clientPc' = "fetching"
                /\ clientResult' = NoResult
                /\ clientRequests' = <<Request(call)>>
                /\ clientTimer' = TRUE
        /\ UNCHANGED <<page, subjects, storeVars, now, subjectCalls, taskPageVars, notice,
                       escaped, sessionCompleted>>

GenerateContent(subject) ==
    Invoke("generateContent", subject, None, None, None, None, 0)

GenerateQuestions(subject, topic, count) ==
    Invoke("generateQuestions", subject, topic, None, None, None, count)

GenerateQuiz(topic, count) ==
    Invoke("generateQuiz", None, topic, None, None, None, count)

AnswerDoubt(question, context) ==
    Invoke("answerDoubt", None, None, question, None, context, 0)

VerifyAnswer(question, answer) ==
    Invoke("verifyAnswer", None, None, question, answer, None, 0)

\* A response body: text that is not JSON, the JSON null, or a JSON object
\* with some of the fields detail.message, message, data, topics (its
\* length) and total_topics.
Unparsable ==
    [k |-> "unparsable", detail |-> None, message |-> None, data |-> None,
     topics |-> None, total_topics |-> None]
JsonNull == [Unparsable EXCEPT !.k = "null"]
JsonObject(detail, message, data, topics, total_topics) ==
    [k |-> "object", detail |-> detail, message |-> message, data |-> data,
     topics |-> topics, total_topics |-> total_topics]

ErrorBodies ==
    { Unparsable, JsonNull,
      JsonObject(None, None, None, None, None),
      JsonObject(Some("d"), Some("m"), None, None, None),
      JsonObject(None, Some("m"), None, None, None),
      JsonObject(Some(""), Some(""), None, None, None) }

SuccessBodies ==
    { Unparsable, JsonNull,
      JsonObject(None, None, None, Some(2), Some(2)),
      JsonObject(None, None, None, Some(1), Some(2)),
      JsonObject(None, None, Some(JsonObject(None, None, None, Some(1), Some(1))),
                 None, None) }

\* the abort timer set by _request runs out
TimerFires ==
    /\ clientTimer
    /\ clientTimer' = FALSE
    /\ IF clientPc = "fetching"
       THEN /\ clientPc' = "done"
            /\ clientResult' = Threw(<<"AbortError">>)
       ELSE UNCHANGED <<clientPc, clientResult>>
    /\ UNCHANGED <<page, subjects, storeVars, now, subjectCalls, taskPageVars, notice,
                   escaped, sessionCompleted, clientCall, clientRequests>>

\* fetch resolves with the response headers: the timer is cleared
FetchResolves(ok) ==
    /\ clientPc = "fetching"
    /\ clientTimer' = FALSE
    /\ clientPc' = IF ok THEN "reading body" ELSE "reading error body"
    /\ UNCHANGED <<page, subjects, storeVars, now, subjectCalls, taskPageVars, notice,
                   escaped, sessionCompleted, clientCall, clientRequests, clientResult>>

\* fetch rejects: the network is down
FetchRejects ==
    /\ clientPc = "fetching"
    /\ clientPc' = "done"
    /\ clientResult' = Threw(<<"Failed to fetch">>)
    /\ UNCHANGED <<page, subjects, storeVars, now, subjectCalls, taskPageVars, notice,
                   escaped, sessionCompleted, clientCall, clientTimer, clientRequests>>

\* errorData.detail?.message || errorData.message || `HTTP ${status}: ...`
ErrorMessage(body, status) ==
    LET errorData == IF body.k = "unparsable"
                     THEN JsonObject(None, None, None, None, None) ELSE body
    IN  IF errorData.k = "null" THEN <<"TypeError">>
        ELSE IF errorData.detail # None /\ errorData.detail[1] # ""
             THEN <<errorData.detail[1]>>
        ELSE IF errorData.message # None /\ errorData.message[1] # ""
             THEN <<errorData.message[1]>>
        ELSE <<"HTTP", status>>

\* the body of a response that is not ok has been read
ReadErrorBody(body, status) ==
    /\ clientPc = "reading error body"
    /\ clientPc' = "done"
    /\ clientResult' = Threw(ErrorMessage(body, status))
    /\ UNCHANGED <<page, subjects, storeVars, now, subjectCalls, taskPageVars, notice,
                   escaped, sessionCompleted, clientCall, clientTimer, clientRequests>>

\* what the operation makes of the parsed body: response.data || response
\* in generateQuestions and answerDoubt, the body itself in the others
Unwrap(op, body) ==
    IF op \in {"generateQuestions", "answerDoubt"}
    THEN IF body.k = "null" THEN Threw(<<"TypeError">>)
         ELSE IF body.data # None THEN Returned(body.data[1])
         ELSE Returned(body)
    ELSE Returned(body)

\* the body of an ok response has been read
ReadBody(body) ==
    /\ clientPc = "reading body"
    /\ clientPc' = "done"
    /\ clientResult' = IF body.k = "unparsable" THEN Threw(<<"SyntaxError">>)
                       ELSE Unwrap(clientCall.op, body)
    /\ UNCHANGED <<page, subjects, storeVars, now, subjectCalls, taskPageVars, notice,
                   escaped, sessionCompleted, clientCall, clientTimer, clientRequests>>

\* isAvailable: a GET of /health handed to fetch with no abort signal
IsAvailable ==
    /\ clientPc \in {"idle", "done"}
    /\ clientCall' = [NoCall EXCEPT !.op = "isAvailable"]
    /\ clientPc' = "probing"
    /\ clientResult' = NoResult
    /\ clientRequests' = <<Call("/health", None, None, None, None, None, 0)>>
    /\ clientTimer' = FALSE
    /\ UNCHANGED <<page, subjects, storeVars, now, subjectCalls, taskPageVars, notice,
                   escaped, sessionCompleted>>

\* the probe resolves (return response.ok) or rejects (return false)
ProbeSettles(resolved, ok) ==
    /\ clientPc = "probing"
    /\ clientPc' = "done"
    /\ clientResult' = ReturnedFlag(resolved /\ ok)
    /\ UNCHANGED <<page, subjects, storeVars, now, subjectCalls, taskPageVars, notice,
                   escaped, sessionCompleted, clientCall, clientTimer, clientRequests>>

(***************************************************************************)
(* The specification.                                                      *)
(***************************************************************************)
SubjectIds == 0..(MaxClock + 1)
TopicIds == 0..2

Next ==
    \/ Tick
    \/ \E input \in SubjectInputs : GenerateSubject(input)
    \/ \E c \in 1..MaxInflight, topics \in ContentPayloads : GenerateSubjectOk(c, topics)
    \/ \E c \in 1..MaxInflight : GenerateSubjectFail(c)
    \/ \E id \in SubjectIds, confirmed \in BOOLEAN : DeleteSubject(id, confirmed)
    \/ \E id \in SubjectIds, tid \in TopicIds : ViewTopicQuestions(id, tid)
    \/ LoadSubjectsPage
    \/ LoadTaskPage
    \/ GenerateQuestionsFail
    \/ \E payload \in QuestionPayloads : GenerateQuestionsOk(payload)
    \/ \E i \in 1..2, input \in AnswerInputs : SubmitTaskAnswer(i, input)
    \/ \E c \in 1..MaxVerify, resp \in VerifyPayloads : VerifyOk(c, resp)
    \/ \E c \in 1..MaxVerify : VerifyFail(c)
    \/ \E confirmed \in BOOLEAN : SubmitAllTaskAnswers(confirmed)

Spec == Init /\ [][Next]_vars

(***************************************************************************)
(* The subjects page alone, reloaded at any time, up to the moment the     *)
(* user leaves it for the task page.                                       *)
(***************************************************************************)
NextSubjects ==
    \/ Tick
    \/ \E input \in SubjectInputs : GenerateSubject(input)
    \/ \E c \in 1..MaxInflight, topics \in ContentPayloads : GenerateSubjectOk(c, topics)
    \/ \E c \in 1..MaxInflight : GenerateSubjectFail(c)
    \/ \E id \in SubjectIds, confirmed \in BOOLEAN : DeleteSubject(id, confirmed)
    \/ \E id \in SubjectIds, tid \in TopicIds : ViewTopicQuestions(id, tid)
    \/ page = "subjects" /\ LoadSubjectsPage

SpecSubjects == Init /\ [][NextSubjects]_vars

(***************************************************************************)
(* The task page alone. It starts where the subjects page leaves off: a    *)
(* subject created by generateSubject is stored, viewTopicQuestions has    *)
(* stored the session of one of its topics (or none was ever stored), and  *)
(* the subject may have been deleted since.                                *)
(***************************************************************************)
SeedTopics == NewSubject(<<"a">>, <<TopicWithQuestions>>, 0)
SeedBare == NewSubject(<<"a">>, <<TopicBare, TopicWithObjects>>, 0)

\* the stored collection and the stored session the task page may find
SeedStores ==
    { [subjects |-> <<SeedTopics>>, task |-> None],
      [subjects |-> <<SeedTopics>>, task |-> Some(TaskSession(SeedTopics, SeedTopics.topics[1]))],
      [subjects |-> <<>>, task |-> Some(TaskSession(SeedTopics, SeedTopics.topics[1]))],
      [subjects |-> <<SeedBare>>, task |-> Some(TaskSession(SeedBare, SeedBare.topics[1]))],
      [subjects |-> <<SeedBare>>, task |-> Some(TaskSession(SeedBare, SeedBare.topics[2]))] }

InitTask ==
    /\ page = "other"
    /\ \E store \in SeedStores :
          /\ lsSubjects = saveState(store.subjects)
          /\ lsTask = store.task
    /\ subjects = <<>>
    /\ lsHistory = None
    /\ now = 0
    /\ subjectCalls = <<>>
    /\ taskData = None
    /\ genState = "idle"
    /\ genRequests = 0
    /\ currentTaskQuestions = None
    /\ taskAnswers = None
    /\ taskScores = None
    /\ verifyCalls = <<>>
    /\ view = NoView
    /\ notice = "none"
    /\ escaped = FALSE
    /\ sessionCompleted = FALSE
    /\ clientCall = NoCall
    /\ clientPc = "idle"
    /\ clientTimer = FALSE
    /\ clientRequests = <<>>
    /\ clientResult = NoResult

NextTask ==
    \/ LoadTaskPage
    \/ GenerateQuestionsFail
    \/ \E payload \in QuestionPayloads : GenerateQuestionsOk(payload)
    \/ \E i \in 1..2, input \in AnswerInputs : SubmitTaskAnswer(i, input)
    \/ \E c \in 1..MaxVerify, resp \in VerifyPayloads : VerifyOk(c, resp)
    \/ \E c \in 1..MaxVerify : VerifyFail(c)
    \/ \E confirmed \in BOOLEAN : SubmitAllTaskAnswers(confirmed)

SpecTask == InitTask /\ [][NextTask]_vars

(***************************************************************************)
(* The task page up to the bulk submission, with a question answered       *)
(* again while its verification is still under way.                        *)
(***************************************************************************)
NextVerify ==
    \/ LoadTaskPage
    \/ GenerateQuestionsFail
    \/ \E payload \in QuestionPayloads : GenerateQuestionsOk(payload)
    \/ \E i \in 1..2, input \in RepeatedAnswerInputs : SubmitTaskAnswer(i, input)
    \/ \E c \in 1..MaxVerify, resp \in VerifyPayloads : VerifyOk(c, resp)
    \/ \E c \in 1..MaxVerify : VerifyFail(c)

SpecVerify == InitTask /\ [][NextVerify]_vars

(***************************************************************************)
(* The task page with a question answered twice, the second answer given   *)
(* while the verification of the first is still under way; every           *)
(* verification succeeds, in whatever order the backend answers.           *)
(***************************************************************************)
FirstAnswer == <<"x">>
SecondAnswer == <<"y">>

\* the verifications under way for the question at index
InFlightFor(index) == SelectSeq(verifyCalls, LAMBDA call : call.index = index)

\* the user answers a question that has no answer yet
FirstSubmission(questionIndex) ==
    /\ page = "task"
    /\ view.body = "questions"
    /\ questionIndex \in 1..Len(currentTaskQuestions[1])
    /\ InFlightFor(questionIndex) = <<>>
    /\ taskAnswers[1][questionIndex] = None
    /\ SubmitTaskAnswer(questionIndex, FirstAnswer)

\* the user changes the answer and submits it again before the first
\* verification has returned
Resubmission(questionIndex) ==
    /\ InFlightFor(questionIndex) = <<[index |-> questionIndex, answer |-> FirstAnswer]>>
    /\ taskAnswers[1][questionIndex] = None
    /\ SubmitTaskAnswer(questionIndex, SecondAnswer)

NextOverlap ==
    \/ LoadTaskPage
    \/ GenerateQuestionsFail
    \/ \E payload \in QuestionPayloads : GenerateQuestionsOk(payload)
    \/ \E i \in 1..2 : FirstSubmission(i)
    \/ \E i \in 1..2 : Resubmission(i)
    \/ \E c \in 1..MaxVerify, resp \in VerifyPayloads : VerifyOk(c, resp)

SpecOverlap == InitTask /\ [][NextOverlap]_vars

(***************************************************************************)
(* The bulk submission of a session of any length. It starts on the task   *)
(* page of a session whose generation returned total questions, the first  *)
(* correct of them answered and verified correct, the others either left   *)
(* unanswered or answered and verified wrong.                              *)
(***************************************************************************)
ScoredQuestions(total) == [i \in 1..total |-> IngestQuestion(StrQ(<<"q">>))]

ScoredSession(total) ==
    [TaskSession(SeedTopics, SeedTopics.topics[1]) EXCEPT
        !.questions = ScoredQuestions(total), !.apiGenerated = TRUE, !.needsGeneration = FALSE]

InitScore ==
    \E total \in 1..MaxScoreQuestions, correct \in 0..MaxScoreQuestions, others \in {"unanswered", "wrong"} :
        /\ correct <= total
        /\ page = "task"
        /\ lsTask = Some(ScoredSession(total))
        /\ taskData = lsTask
        /\ subjects = ReplaceTopicQuestions(<<SeedTopics>>, ScoredSession(total), ScoredQuestions(total))
        /\ lsSubjects = saveState(subjects)
        /\ lsHistory = None
        /\ now = 0
        /\ subjectCalls = <<>>
        /\ genState = "ok"
        /\ genRequests = 1
        /\ currentTaskQuestions = RenderTaskQuestions(ScoredQuestions(total), Fresh).questions
        /\ taskAnswers = Some([i \in 1..total |->
                                  IF i <= correct \/ others = "wrong" THEN Some(<<"x">>) ELSE None])
        /\ taskScores = Some([i \in 1..total |->
                                 IF i <= correct THEN Some(1)
                                 ELSE IF others = "wrong" THEN Some(0) ELSE None])
        /\ verifyCalls = <<>>
        /\ view = RenderTaskQuestions(ScoredQuestions(total), Fresh).view
        /\ notice = "generated"
        /\ escaped = FALSE
        /\ sessionCompleted = FALSE
        /\ clientCall = NoCall
        /\ clientPc = "idle"
        /\ clientTimer = FALSE
        /\ clientRequests = <<>>
        /\ clientResult = NoResult

NextScore ==
    \/ \E confirmed \in BOOLEAN : SubmitAllTaskAnswers(confirmed)
    \/ LoadTaskPage

SpecScore == InitScore /\ [][NextScore]_vars

(***************************************************************************)
(* The subjects collection through both pages: subjects are generated and  *)
(* deleted on the subjects page, a topic is opened, and the task page      *)
(* generates its questions; no answer is submitted.                        *)
(***************************************************************************)
\* the positions a topic may have in a subject of these payloads
TopicIndexes == 1..2

\* the names typed, what /generate answers and what /generate-questions answers
CollectionInputs == {<<"a">>, <<"b">>}
CollectionContents == {Some(<<TopicWithQuestions>>), Some(<<TopicBare, TopicWithObjects>>)}
CollectionQuestions ==
    { [shape |-> "questions", items |-> <<StrQ(<<"q", "2">>)>>],
      [shape |-> "other", items |-> <<>>] }

NextCollection ==
    \/ Tick
    \/ \E input \in CollectionInputs : GenerateSubject(input)
    \/ \E c \in 1..MaxInflight, topics \in CollectionContents : GenerateSubjectOk(c, topics)
    \/ \E id \in SubjectIds, confirmed \in BOOLEAN : DeleteSubject(id, confirmed)
    \/ \E id \in SubjectIds, tid \in TopicIds : ViewTopicQuestions(id, tid)
    \/ LoadSubjectsPage
    \/ LoadTaskPage
    \/ \E payload \in CollectionQuestions : GenerateQuestionsOk(payload)

SpecCollection == Init /\ [][NextCollection]_vars

(***************************************************************************)
(* The task page on questions of every shape. It starts where the subjects *)
(* page leaves off: generateSubject stored a topic with the questions the  *)
(* backend sent, as they came, and viewTopicQuestions stored its session.  *)
(***************************************************************************)
\* a question as a string, or as an object with some of its fields, empty or not
QuestionShapes ==
    {StrQ(s) : s \in {<<>>, <<" ", "s">>}}
    \cup {ObjQ(q, t, ti) : q \in {None, Some(<<>>), Some(<<"q">>)},
                           t \in {None, Some(<<>>), Some(<<"t">>)},
                           ti \in {None, Some(<<"i">>)}}

ShapeLists == UNION {[1..n -> QuestionShapes] : n \in 1..MaxShapes}

SeedShapes(questions) ==
    NewSubject(<<"a">>, <<[topic |-> Some(<<"t">>), questions |-> Some(questions)]>>, 0)

InitShapes ==
    \E questions \in ShapeLists :
        /\ page = "other"
        /\ lsSubjects = saveState(<<SeedShapes(questions)>>)
        /\ lsTask = Some(TaskSession(SeedShapes(questions), SeedShapes(questions).topics[1]))
        /\ subjects = <<>>
        /\ lsHistory = None
        /\ now = 0
        /\ subjectCalls = <<>>
        /\ taskData = None
        /\ genState = "idle"
        /\ genRequests = 0
        /\ currentTaskQuestions = None
        /\ taskAnswers = None
        /\ taskScores = None
        /\ verifyCalls = <<>>
        /\ view = NoView
        /\ notice = "none"
        /\ escaped = FALSE
        /\ sessionCompleted = FALSE
        /\ clientCall = NoCall
        /\ clientPc = "idle"
        /\ clientTimer = FALSE
        /\ clientRequests = <<>>
        /\ clientResult = NoResult

NextShapes ==
    \/ LoadTaskPage
    \/ GenerateQuestionsFail
    \/ \E payload \in QuestionPayloads : GenerateQuestionsOk(payload)
    \/ \E i \in 1..MaxShapes, input \in AnswerInputs : SubmitTaskAnswer(i, input)

SpecShapes == InitShapes /\ [][NextShapes]_vars

(***************************************************************************)
(* The API client alone: one invocation at a time, the backend answering   *)
(* or not as it pleases.                                                   *)
(***************************************************************************)
NextClient ==
    \/ \E subject \in ClientStrings : GenerateContent(subject)
    \/ \E subject \in ClientStrings, topic \in ClientStrings, count \in Counts :
          GenerateQuestions(subject, topic, count)
    \/ \E topic \in ClientStrings, count \in Counts : GenerateQuiz(topic, count)
    \/ \E question \in ClientStrings, context \in ContextStrings :
          AnswerDoubt(question, context)
    \/ \E question \in ClientStrings, answer \in ClientStrings :
          VerifyAnswer(question, answer)
    \/ IsAvailable
    \/ TimerFires
    \/ \E ok \in BOOLEAN : FetchResolves(ok)
    \/ FetchRejects
    \/ \E body \in ErrorBodies, status \in Statuses : ReadErrorBody(body, status)
    \/ \E body \in SuccessBodies : ReadBody(body)
    \/ \E resolved \in BOOLEAN, ok \in BOOLEAN : ProbeSettles(resolved, ok)

SpecClient == Init /\ [][NextClient]_vars

\* The generation of the questions of a session on the task page, next to the
\* client whose generateQuestions it calls.
NextGeneration ==
    \/ LoadTaskPage
    \/ GenerateQuestionsFail
    \/ \E payload \in QuestionPayloads : GenerateQuestionsOk(payload)
    \/ NextClient

SpecGeneration == InitTask /\ [][NextGeneration]_vars

\* The same, with the one thing the browser guarantees: a timer that is armed
\* and stays armed runs out. Nothing is assumed of the backend.
SpecClientFair == SpecClient /\ WF_vars(TimerFires)

(***************************************************************************)
(* Properties of the subjects page (SpecSubjects).                         *)
(***************************************************************************)
\* C4: in every reachable state no two subjects of the collection have names
\* that are equal ignoring case, overlapping generateSubject calls included.
NamesUniqueIgnoringCase ==
    \A i, j \in 1..Len(subjects) :
        i # j => ToLowerCase(subjects[i].name) # ToLowerCase(subjects[j].name)

\* C5: in every reachable state the ids of the persisted subjects are pairwise
\* distinct.
PersistedIdsDistinct ==
    \A i, j \in 1..Len(LoadSubjects) : i # j => LoadSubjects[i].id # LoadSubjects[j].id

\* C6: a confirmed deleteSubject(id) removes exactly the one subject whose id
\* is id, keeps the others in their order, leaves the collection as it was
\* when no subject has that id, and the persisted store equals the collection
\* in memory when it returns.
DeleteRemovesExactlyOne ==
    [][\A id \in SubjectIds :
          DeleteSubject(id, TRUE) =>
              /\ subjects' = IF FindById(subjects, id) = 0 THEN subjects
                             ELSE RemoveAt(subjects, FindById(subjects, id))
              /\ lsSubjects' = saveState(subjects')]_vars

(***************************************************************************)
(* Properties of the task page (SpecTask).                                 *)
(***************************************************************************)
\* a bulk submission that appended a history entry
CompletedSubmission ==
    /\ \E confirmed \in BOOLEAN : SubmitAllTaskAnswers(confirmed)
    /\ lsHistory' # lsHistory

\* C1: after every bulk submission that appended a history entry the
\* persisted task session is cleared.
SubmissionClearsSession == [][CompletedSubmission => lsTask' = None]_vars

\* C3: a session instance that has been bulk-submitted never gets another
\* history entry, whatever is done with it afterwards.
CompletedIsTerminal == [][lsHistory' # lsHistory => ~sessionCompleted]_vars

\* the three outcomes of a generation
Ready ==
    /\ genState = "ok"
    /\ view.body = "questions"
    /\ currentTaskQuestions # None
    /\ currentTaskQuestions[1] =
          [i \in 1..Len(taskData[1].questions) |-> NormalizeQuestion(taskData[1].questions[i])]

DegradedFallback ==
    /\ genState = "failed"
    /\ Len(taskData[1].questions) > 0
    /\ view = [banner |-> TRUE, body |-> "questions"]

Empty ==
    /\ genState = "failed"
    /\ Len(taskData[1].questions) = 0
    /\ view.body = "go back"

\* C7: when the backend call of a session awaiting generation resolves or
\* fails, the session is Ready (the generated questions rendered), or
\* DegradedFallback (the cached questions rendered with the failure banner),
\* or Empty, and no longer awaits generation.
GenerationOutcome ==
    [][genState = "pending" /\ genState' # "pending" /\ page' = "task" =>
          (Ready \/ DegradedFallback \/ Empty)']_vars

\* the generation call of the session failed: it threw, or what it returned
\* could not be used
GenerationFailed ==
    \/ GenerateQuestionsFail
    \/ \E payload \in QuestionPayloads : GenerateQuestionsOk(payload) /\ genState' = "failed"
    \/ LoadTaskPage /\ genState' = "failed"

\* C8: when the generation call fails, no history entry is created and the
\* persisted session and the persisted subjects stay as they were: the session
\* still asks for generation and still holds the cached questions.
FailureWritesNothing ==
    [][GenerationFailed =>
          /\ UNCHANGED <<lsHistory, lsTask, lsSubjects>>
          /\ lsTask'[1].needsGeneration
          /\ lsTask'[1].questions = taskData'[1].questions]_vars

\* a generation has failed on a session that holds cached questions
FailureWritesNothingWitness ==
    /\ page = "task"
    /\ genState = "failed"
    /\ genRequests = 1
    /\ lsTask # None
    /\ Len(lsTask[1].questions) > 0
    /\ view.body = "questions"

\* C9: no exception escapes a user-facing operation, whatever the backend
\* answers and whatever the state of the session, a bulk submission with no
\* question list rendered included.
NoExceptionEscapes == ~escaped

(***************************************************************************)
(* Properties of the bulk submission (SpecScore).                          *)
(***************************************************************************)
\* round(100 * correct / total), halves rounded up
RoundedPercent(correct, total) == (200 * correct + total) \div (2 * total)

\* C2: for a session of N >= 1 questions, however they were answered, a bulk
\* submission appends exactly one history entry with totalQuestions = N,
\* correctAnswers = the number of questions whose recorded score is 1, and
\* score = round(100 * correctAnswers / N).
SubmissionScore ==
    [][CompletedSubmission =>
          LET total == Len(currentTaskQuestions[1])
              correct == Cardinality({i \in 1..total : taskScores[1][i] = Some(1)})
              entry == lsHistory'[1][Len(lsHistory'[1])]
          IN  /\ lsHistory'[1] = Append(LoadHistory, entry)
              /\ entry.totalQuestions = total
              /\ entry.correctAnswers = correct
              /\ entry.score = RoundedPercent(correct, total)]_vars

(***************************************************************************)
(* Properties of the API client (SpecClient).                              *)
(***************************************************************************)
\* an argument that is absent or the empty string
Missing(o) == o = None \/ o[1] = <<>>

\* an argument that is absent, empty or made of whitespace only
EmptyOrWhitespace(o) == o = None \/ \A i \in 1..Len(o[1]) : o[1][i] = " "

\* the arguments of the call are not valid for its operation
InvalidInput(call) ==
    CASE call.op = "generateContent"   -> EmptyOrWhitespace(call.subject)
      [] call.op = "generateQuestions" ->
             Missing(call.subject) \/ Missing(call.topic) \/ call.count \notin 1..20
      [] call.op = "generateQuiz"      -> Missing(call.topic) \/ call.count \notin 1..50
      [] call.op = "answerDoubt"       -> EmptyOrWhitespace(call.question)
      [] call.op = "verifyAnswer"      ->
             EmptyOrWhitespace(call.question) \/ EmptyOrWhitespace(call.answer)
      [] OTHER -> FALSE

RequestBuilt == clientRequests # <<>>

\* C11: generateQuestions with a non-empty subject and topic passes validation
\* and builds its request exactly when 1 <= count <= 20 (0 and 21 fail, 1 and
\* 20 pass), and generateQuiz with a non-empty topic exactly when
\* 1 <= count <= 50.
CountRangeDecidesValidation ==
    /\ (clientCall.op = "generateQuestions" /\ ~Missing(clientCall.subject)
            /\ ~Missing(clientCall.topic)) =>
           /\ RequestBuilt <=> clientCall.count \in 1..20
           /\ RequestBuilt => clientRequests[1].count = clientCall.count
           /\ ~RequestBuilt => clientResult = Threw(<<"Count must be between 1 and 20">>)
    /\ (clientCall.op = "generateQuiz" /\ ~Missing(clientCall.topic)) =>
           /\ RequestBuilt <=> clientCall.count \in 1..50
           /\ RequestBuilt => clientRequests[1].count = clientCall.count
           /\ ~RequestBuilt => clientResult = Threw(<<"Count must be between 1 and 50">>)

\* generateQuestions was invoked with count = 20 and its request is on its way
CountRangeWitness ==
    /\ clientCall.op = "generateQuestions"
    /\ clientCall.count = 20
    /\ clientPc = "fetching"
    /\ clientRequests = <<Call("/generate-questions", Some(<<"a">>), Some(<<"a">>),
                              None, None, None, 20)>>

\* a request of _request has been handed to fetch and has not settled
RequestPending == clientPc \in {"fetching", "reading body", "reading error body"}

\* C12: every request made through _request eventually completes, returning
\* the payload or failing, whatever the backend does: it may never answer, or
\* answer the status line and never finish the body.
RequestCompletes == RequestPending ~> clientPc = "done"

ArraysMatchQuestions ==
    currentTaskQuestions # None =>
        /\ taskAnswers # None
        /\ taskScores # None
        /\ Len(currentTaskQuestions[1]) = Len(taskData[1].questions)
        /\ Len(taskAnswers[1]) = Len(currentTaskQuestions[1])
        /\ Len(taskScores[1]) = Len(currentTaskQuestions[1])

\* two questions are rendered and the second has its answer and score recorded
ArraysMatchWitness ==
    /\ currentTaskQuestions # None
    /\ Len(currentTaskQuestions[1]) = 2
    /\ taskAnswers[1][1] = None
    /\ taskAnswers[1][2] # None
    /\ taskScores[1][2] # None

(***************************************************************************)
(* Properties of the verification of answers (SpecVerify).                 *)
(***************************************************************************)
\* the response reports is_correct = true, inside data or at top level
ReportsCorrect(resp) == resp.at \in {"data", "top"} /\ resp.is_correct = TRUE

\* question i has score 1 recorded
ScoredCorrect(scores, i) == scores # None /\ i <= Len(scores[1]) /\ scores[1][i] = Some(1)

\* C15: the recorded score of a question becomes 1 only by a verification
\* response for that question that reports is_correct = true, and a response
\* that does not report it records score 0.
ScoreOnlyFromVerification ==
    [][/\ \A i \in 1..2 :
             (ScoredCorrect(taskScores', i) /\ ~ScoredCorrect(taskScores, i)) =>
                 \E c \in 1..MaxVerify, resp \in VerifyPayloads :
                     /\ VerifyOk(c, resp)
                     /\ verifyCalls[c].index = i
                     /\ ReportsCorrect(resp)
       /\ \A c \in 1..MaxVerify, resp \in VerifyPayloads :
             (VerifyOk(c, resp) /\ ~ReportsCorrect(resp)) =>
                 taskScores'[1][verifyCalls[c].index] = Some(0)]_vars

\* one question has score 1 and the other score 0
ScoreOnlyFromVerificationWitness ==
    /\ taskScores # None
    /\ Len(taskScores[1]) = 2
    /\ taskScores[1][1] = Some(1)
    /\ taskScores[1][2] = Some(0)

(***************************************************************************)
(* More properties of the subjects page (SpecSubjects).                    *)
(***************************************************************************)
\* C16: a generateSubject(name) whose backend response carries k topics adds
\* exactly one subject, with that name, k topics in the order of the backend
\* with pairwise distinct ids, and createdAt set; the subjects that existed
\* are unchanged, and the persisted store equals the collection in memory when
\* the operation completes.
GenerateSubjectAddsOne ==
    [][\A c \in 1..MaxInflight, topics \in ContentPayloads :
          (GenerateSubjectOk(c, topics) /\ topics # None) =>
              LET added == Head(subjects')
              IN  /\ Len(subjects') = Len(subjects) + 1
                  /\ Tail(subjects') = subjects
                  /\ added.name = subjectCalls[c]
                  /\ Len(added.topics) = Len(topics[1])
                  /\ \A i \in 1..Len(topics[1]) : added.topics[i].name = topics[1][i].topic
                  /\ \A i, j \in 1..Len(added.topics) :
                        i # j => added.topics[i].id # added.topics[j].id
                  /\ added.createdAt = now
                  /\ lsSubjects' # None
                  /\ lsSubjects'[1] = subjects']_vars

\* a subject with two topics was added in front of an existing subject
GenerateSubjectAddsOneWitness ==
    /\ Len(subjects) = 2
    /\ Len(subjects[1].topics) = 2
    /\ subjects[1].name # subjects[2].name
    /\ lsSubjects = Some(subjects)

(***************************************************************************)
(* More properties of the API client (SpecClient).                         *)
(***************************************************************************)
\* C17: for a valid subject name and whatever the backend does,
\* generateContent returns a payload whose topics sequence is as long as its
\* total_topics field says, or fails; it never returns a payload in which the
\* two disagree or topics is missing.
ContentPayloadConsistent ==
    (clientCall.op = "generateContent" /\ clientResult.kind = "returned") =>
        LET payload == clientResult.value[1]
        IN  /\ payload.k = "object"
            /\ payload.topics # None
            /\ payload.total_topics # None
            /\ payload.topics[1] = payload.total_topics[1]

(***************************************************************************)
(* Properties of the handling of question shapes (SpecShapes).             *)
(***************************************************************************)
\* C18: normalization is idempotent: whatever the shape of a question,
\* normalizing its normalized form gives that same form again.
NormalizationIdempotent ==
    currentTaskQuestions # None =>
        \A i \in 1..Len(currentTaskQuestions[1]) :
            NormalizeQuestion(currentTaskQuestions[1][i]) = currentTaskQuestions[1][i]

\* C19: the three places that take questions in derive the same text from a
\* question of any shape: what generateQuestionsForTopic would store for it,
\* what renderTaskQuestions shows for it and what submitTaskAnswer would send
\* for it are one and the same string.
SameQuestionText ==
    taskData # None =>
        \A i \in 1..Len(taskData[1].questions) :
            LET q == taskData[1].questions[i]
            IN  /\ NormalizeQuestion(q).question = Some(IngestText(q))
                /\ ExtractText(q) = IngestText(q)

(***************************************************************************)
(* Properties of the task history (SpecTask).                              *)
(***************************************************************************)
\* C20: task history is append-only: every step leaves the history persisted
\* before it as an unchanged prefix of the history persisted after it, and a
\* step that changes the history is a bulk submission adding one entry.
HistoryAppendOnly ==
    [][/\ Len(LoadHistory') >= Len(LoadHistory)
       /\ SubSeq(LoadHistory', 1, Len(LoadHistory)) = LoadHistory
       /\ lsHistory' # lsHistory =>
              /\ Len(LoadHistory') = Len(LoadHistory) + 1
              /\ \E confirmed \in BOOLEAN : SubmitAllTaskAnswers(confirmed)]_vars

\* a second bulk submission has been added behind an earlier entry
HistoryAppendOnlyWitness ==
    /\ Len(LoadHistory) = 2
    /\ sessionCompleted
    /\ page = "other"

OthersUnchanged(index) ==
    /\ Len(taskAnswers'[1]) = Len(taskAnswers[1])
    /\ Len(taskScores'[1]) = Len(taskScores[1])
    /\ \A j \in 1..Len(taskAnswers[1]) :
           j # index => /\ taskAnswers'[1][j] = taskAnswers[1][j]
                        /\ taskScores'[1][j] = taskScores[1][j]

\* the stores, the collection, the question list and the page are as they were
SessionUntouched ==
    /\ UNCHANGED <<lsTask, lsSubjects, lsHistory, subjects, sessionCompleted>>
    /\ UNCHANGED <<page, taskData, genState, currentTaskQuestions, view>>

\* C22: the submission of the answer of question i changes only the answer
\* and the score recorded at index i: the records of every other index, the
\* persisted session, the subjects collection and the task history stay as
\* they were, and the session stays as it is, with no history entry written.
SubmissionTouchesOneIndex ==
    [][/\ (\E i \in 1..2, input \in AnswerInputs : SubmitTaskAnswer(i, input)) =>
              /\ SessionUntouched
              /\ UNCHANGED <<taskAnswers, taskScores>>
       /\ \A c \in 1..Len(verifyCalls) :
              ((\E resp \in VerifyPayloads : VerifyOk(c, resp)) \/ VerifyFail(c)) =>
                  /\ SessionUntouched
                  /\ OthersUnchanged(verifyCalls[c].index)]_vars

\* of two questions the first has its answer and its score, the second none
SubmissionTouchesOneIndexWitness ==
    /\ page = "task"
    /\ taskAnswers # None
    /\ Len(taskAnswers[1]) = 2
    /\ taskAnswers[1][1] # None
    /\ taskScores[1][1] # None
    /\ taskAnswers[1][2] = None
    /\ taskScores[1][2] = None

(***************************************************************************)
(* Properties of the subjects collection through both pages                *)
(* (SpecCollection).                                                       *)
(***************************************************************************)
\* what of a subject is fixed at its creation
Skeleton(s) ==
    [id |-> s.id, name |-> s.name, createdAt |-> s.createdAt,
     topics |-> [i \in 1..Len(s.topics) |-> [id |-> s.topics[i].id, name |-> s.topics[i].name]]]

\* the topics of the collection before whose question list differs in the collection after
ReplacedTopics(before, after) ==
    {<<i, j>> \in (1..Len(before)) \X TopicIndexes :
        /\ j <= Len(before[i].topics)
        /\ after[i].topics[j].questions # before[i].topics[j].questions}

\* C23: a subject, once created, keeps its id, its name, its createdAt and
\* its topics (their number, order, ids and names): a step that changes the
\* persisted collection puts one new subject in front of the others, or
\* removes the subjects of one id whole, or replaces the question list of one
\* topic of one subject, and leaves every other subject as it was.
SubjectsKeepIdentity ==
    [][lsSubjects' # lsSubjects =>
          LET before == LoadSubjects
              after == LoadSubjects'
          IN  \/ Len(after) = Len(before) + 1 /\ Tail(after) = before
              \/ \E id \in SubjectIds : after = FilterOutId(before, id)
              \/ /\ Len(after) = Len(before)
                 /\ \A i \in 1..Len(before) : Skeleton(after[i]) = Skeleton(before[i])
                 /\ Cardinality(ReplacedTopics(before, after)) = 1]_vars

\* the questions of a topic of a stored subject have been replaced by
\* generated ones, next to a second subject
SubjectsKeepIdentityWitness ==
    /\ page = "task"
    /\ genState = "ok"
    /\ Len(LoadSubjects) = 2
    /\ TopicFound(LoadSubjects, taskData[1])

(***************************************************************************)
(* Properties of the liveness probe and of the error message               *)
(* (SpecClientFair, SpecClient).                                           *)
(***************************************************************************)
\* C24: isAvailable always completes, with a boolean and never with a
\* failure, whatever the backend and the transport do: the backend may be
\* unreachable, or may never answer.
ProbeCompletes ==
    clientPc = "probing" ~> (clientPc = "done" /\ clientResult.kind = "returned")

\* the message the priority order picks: detail.message, else message, else
\* the generic one; a body that is no object has no candidate
PriorityMessage(body, status) ==
    IF body.k = "object" /\ body.detail # None /\ body.detail[1] # ""
    THEN <<body.detail[1]>>
    ELSE IF body.k = "object" /\ body.message # None /\ body.message[1] # ""
    THEN <<body.message[1]>>
    ELSE <<"HTTP", status>>

\* C25: on a status that is not a success the request fails, never returns,
\* and its message is the body's detail.message if there is one, else the
\* body's message if there is one, else the generic HTTP message; a body
\* that cannot be parsed counts as a body with no candidate.
ErrorMessageByPriority ==
    [][\A body \in ErrorBodies, status \in Statuses :
          ReadErrorBody(body, status) =>
              clientResult' = Threw(PriorityMessage(body, status))]_vars

(***************************************************************************)
(* Properties of the failures of generateSubject (SpecSubjects).           *)
(***************************************************************************)
\* generateSubject fails: the name is refused, or the call throws, or the
\* payload it returns has no topics list
SubjectGenerationFailed ==
    \/ \E input \in SubjectInputs :
          GenerateSubject(input) /\ notice' \in {"enter a subject name", "subject already exists"}
    \/ \E c \in 1..MaxInflight : GenerateSubjectFail(c)
    \/ \E c \in 1..MaxInflight : GenerateSubjectOk(c, None)

\* C26: when generateSubject fails, for whatever reason, the subjects
\* collection in memory and the persisted subjects store are exactly what
\* they were.
SubjectFailureChangesNothing ==
    [][SubjectGenerationFailed => UNCHANGED <<subjects, lsSubjects>>]_vars

\* a generation has failed next to a subject stored before
SubjectFailureWitness ==
    /\ page = "subjects"
    /\ notice = "generation error"
    /\ Len(subjects) >= 1
    /\ lsSubjects = saveState(subjects)

\* the questions stored in the collection for the topic of the session td
StoredTopicQuestions(subjs, td) ==
    LET si == FindById(subjs, td.subjectId)
    IN  subjs[si].topics[FindById(subjs[si].topics, td.topicId)].questions

\* C27: between the steps of the operations the persisted subjects store
\* equals the subjects collection in memory, every operation that changes the
\* collection having saved it; and once a generation of questions has
\* succeeded the questions of the persisted session are the questions the
\* persisted collection holds for that topic, if subject and topic are there.
StoreMatchesMemory ==
    /\ page # "other" =>
          /\ lsSubjects = None => subjects = <<>>
          /\ lsSubjects # None => lsSubjects = saveState(subjects)
    /\ (page = "task" /\ genState = "ok" /\ TopicFound(LoadSubjects, lsTask[1])) =>
          StoredTopicQuestions(LoadSubjects, lsTask[1]) = lsTask[1].questions

\* a generation has succeeded and its questions are in the session and in
\* the collection, in memory and persisted
StoreMatchesMemoryWitness ==
    /\ page = "task"
    /\ genState = "ok"
    /\ TopicFound(subjects, lsTask[1])
    /\ Len(lsTask[1].questions) > 0
    /\ lsTask[1].apiGenerated
    /\ lsSubjects = saveState(subjects)

(***************************************************************************)
(* Properties of the records of a session (SpecTask, SpecVerify).          *)
(***************************************************************************)
\* C28: in a rendered session a question has a score only if it has an
\* answer, so the correct answers are at most the answered questions, which
\* are at most the questions; and every entry of the task history has at
\* least one question, between 0 and totalQuestions correct answers and a
\* score between 0 and 100.
ScoresWithinAnswers ==
    /\ currentTaskQuestions # None =>
          LET total == Len(currentTaskQuestions[1])
              answered == total - CountOf(taskAnswers[1], {None})
              correct == CountOf(taskScores[1], {Some(1)})
          IN  /\ \A i \in 1..total : taskScores[1][i] # None => taskAnswers[1][i] # None
              /\ correct <= answered
              /\ answered <= total
    /\ \A k \in 1..Len(LoadHistory) :
          /\ LoadHistory[k].totalQuestions >= 1
          /\ LoadHistory[k].correctAnswers >= 0
          /\ LoadHistory[k].correctAnswers <= LoadHistory[k].totalQuestions
          /\ LoadHistory[k].score >= 0
          /\ LoadHistory[k].score <= 100

\* a session of two questions, one of them answered right and the other not
\* answered, has been submitted
ScoresWithinAnswersWitness ==
    /\ Len(LoadHistory) >= 1
    /\ LoadHistory[1].totalQuestions = 2
    /\ LoadHistory[1].correctAnswers = 1
    /\ LoadHistory[1].score = 50

\* C29: when a question is submitted again with another answer while the
\* verification of its first answer is under way, the record of the question
\* ends as that of the answer submitted last: once the second answer is
\* recorded, the return of the first verification does not replace it.
LatestAnswerWins ==
    [][\A c \in 1..Len(verifyCalls) :
          ((\E resp \in VerifyPayloads : VerifyOk(c, resp))
              /\ taskAnswers[1][verifyCalls[c].index] = Some(SecondAnswer)) =>
                  taskAnswers'[1][verifyCalls[c].index] = Some(SecondAnswer)]_vars

\* a verification fails, or the answer box submitted is empty
VerificationFailed ==
    \/ \E c \in 1..MaxVerify : VerifyFail(c)
    \/ \E i \in 1..2, input \in AnswerInputs : Trim(input) = <<>> /\ SubmitTaskAnswer(i, input)

\* C30: when a verification call fails, or the answer box is empty, the
\* answer and the score recorded for the question keep the values they had,
\* the result of an earlier verification included, and the record of no
\* other question changes.
FailureKeepsRecords ==
    [][VerificationFailed => UNCHANGED <<taskAnswers, taskScores>>]_vars

\* a question whose verified answer is recorded has been submitted again,
\* and that verification is the one to fail
FailureKeepsRecordsWitness ==
    /\ page = "task"
    /\ taskAnswers # None
    /\ \E c \in 1..Len(verifyCalls) :
          /\ taskAnswers[1][verifyCalls[c].index] # None
          /\ taskScores[1][verifyCalls[c].index] = Some(1)

====
